---- MODULE Spec2Model ----
(***************************************************************************)
(* A model of package intset (src/intset.go): the sparse integer set with  *)
(* a dense array of members (is.set), an index array (is.keys) and a       *)
(* count (is.length).                                                      *)
(*                                                                         *)
(* Go slices are references to backing arrays, so the model keeps a memory *)
(* of arrays (mem: array id -> contents, indexed from 0) and an IntSet is  *)
(* a record [length, keys, set] whose keys and set are array ids.  A call  *)
(* that indexes an array out of range panics; a panic is recorded in the   *)
(* panic flag of the result.                                               *)
(*                                                                         *)
(* The source file holds two variants of the package (lines 37-190 and     *)
(* lines 192-300).  Both are modelled, the second with the suffix V2, and  *)
(* both are driven by the same calls: h1 is the heap of the first variant, *)
(* h2 the heap of the second.                                              *)
(***************************************************************************)
EXTENDS Integers, Sequences, FiniteSets, TLC

\* The bound of the model: a variadic argument list holds at most MaxArgs values.
MaxArgs == 1

\* The caller's two set variables.
HandleSeq == <<"a", "b">>
Handles == {HandleSeq[i] : i \in 1 .. Len(HandleSeq)}

\* The universe sizes New is called with.  A set of universe size u has
\* 1, 2, 14, 282, 11840 reachable states for u = 0 .. 4, so two sets are
\* explored together up to size 2 and one set alone up to size 3.
UniverseSizes == {0, 1, 2}
SoloUniverseSizes == {0, 1, 2, 3}

\* Argument values for a set of universe size u: one negative value, every
\* value inside the universe, and u itself, the least value beyond it.
ValuesNear(u) == -1 .. u
\* Variadic argument lists over the values vs.
ArgLists(vs) == UNION {[1 .. n -> vs] : n \in 0 .. MaxArgs}

----------------------------------------------------------------------------
\* Arrays and slices.

\* make([]int, n): an array of n zeroes, indexed 0 .. n-1.
MakeArray(n) == [i \in 0 .. n - 1 |-> 0]

\* len(arr)
ArrLen(arr) == Cardinality(DOMAIN arr)

\* An array id that mem does not use yet (the allocator's choice of address).
FreshId(mem) == CHOOSE id \in 1 .. Cardinality(DOMAIN mem) + 1 : id \notin DOMAIN mem

\* The values of a literal variadic call: a slice over an array of its own.
Lit(seq) == [base |-> 0, lit |-> seq, len |-> Len(seq)]

\* is.set[:is.length]: a slice that aliases the set's dense array.
SliceOf(is) == [base |-> is.set, lit |-> <<>>, len |-> is.length]

\* The k-th element (from 0) of a slice, read from memory as it is now.
At(mem, sl, k) == IF sl.base = 0 THEN sl.lit[k + 1] ELSE mem[sl.base][k]

----------------------------------------------------------------------------
\* The first variant (src/intset.go lines 37-190).

\* Contains panics when it indexes is.set out of range.
ContainsPanics(mem, is, value) ==
    /\ ~(value < 0 \/ ArrLen(mem[is.keys]) <= value)
    /\ mem[is.keys][value] < is.length
    /\ mem[is.keys][value] \notin DOMAIN mem[is.set]

\* Contains without the look into the dense array: a stale slot counts as a member.
ContainsStale(mem, is, value) ==
    IF value < 0 \/ ArrLen(mem[is.keys]) <= value
    THEN FALSE
    ELSE mem[is.keys][value] < is.length

Contains(mem, is, value) ==
    IF value < 0 \/ ArrLen(mem[is.keys]) <= value
    THEN FALSE
    ELSE LET setSlot == mem[is.keys][value]
         IN  /\ setSlot < is.length
             /\ setSlot \in DOMAIN mem[is.set]
             /\ mem[is.set][setSlot] = value

\* Add's loop body without the test !is.Contains(v): a member is stored again.
AddOneAgain(st, v) ==
    LET mem == st.mem
        is  == st.is
    IN  IF 0 <= v /\ v < ArrLen(mem[is.keys])
        THEN IF is.length \notin DOMAIN mem[is.set]
             THEN [mem   |-> [mem EXCEPT ![is.keys][v] = is.length],
                   is    |-> is,
                   panic |-> TRUE]
             ELSE [mem   |-> [mem EXCEPT ![is.keys][v] = is.length,
                                         ![is.set][is.length] = v],
                   is    |-> [is EXCEPT !.length = @ + 1],
                   panic |-> FALSE]
        ELSE st

\* Add's loop body that puts the new value into slot 0 and the value that was
\* there at the end of the dense prefix.
AddOneFront(st, v) ==
    LET mem == st.mem
        is  == st.is
    IN  IF 0 <= v /\ v < ArrLen(mem[is.keys]) /\ ~Contains(mem, is, v)
        THEN IF is.length \notin DOMAIN mem[is.set]
             THEN [st EXCEPT !.panic = TRUE]
             ELSE IF is.length = 0
             THEN [mem   |-> [mem EXCEPT ![is.keys][v] = 0, ![is.set][0] = v],
                   is    |-> [is EXCEPT !.length = 1],
                   panic |-> FALSE]
             ELSE LET first == mem[is.set][0]
                  IN  [mem   |-> [mem EXCEPT ![is.keys] = [@ EXCEPT ![first] = is.length, ![v] = 0],
                                             ![is.set] = [@ EXCEPT ![is.length] = first, ![0] = v]],
                       is    |-> [is EXCEPT !.length = @ + 1],
                       panic |-> FALSE]
        ELSE st

\* Add's loop body without the upper half of the universe test (0 <= v only).
AddOneNoUpperTest(st, v) ==
    LET mem == st.mem
        is  == st.is
    IN  IF 0 <= v
        THEN IF v \notin DOMAIN mem[is.keys] \/ is.length \notin DOMAIN mem[is.set]
             THEN [st EXCEPT !.panic = TRUE]
             ELSE IF ~Contains(mem, is, v)
                  THEN [mem   |-> [mem EXCEPT ![is.keys][v] = is.length,
                                              ![is.set][is.length] = v],
                        is    |-> [is EXCEPT !.length = @ + 1],
                        panic |-> FALSE]
                  ELSE st
        ELSE st

\* Add's loop body with the universe test off by one (v <= len(is.keys)).
AddOneOffByOne(st, v) ==
    LET mem == st.mem
        is  == st.is
    IN  IF 0 <= v /\ v <= ArrLen(mem[is.keys])
        THEN IF v \notin DOMAIN mem[is.keys] \/ is.length \notin DOMAIN mem[is.set]
             THEN [st EXCEPT !.panic = TRUE]
             ELSE IF ~Contains(mem, is, v)
                  THEN [mem   |-> [mem EXCEPT ![is.keys][v] = is.length,
                                              ![is.set][is.length] = v],
                        is    |-> [is EXCEPT !.length = @ + 1],
                        panic |-> FALSE]
                  ELSE st
        ELSE st

\* One iteration of Add's loop for the value v.
AddOne(st, v) ==
    LET mem == st.mem
        is  == st.is
    IN  IF 0 <= v /\ v < ArrLen(mem[is.keys])
        THEN IF ContainsPanics(mem, is, v)
             THEN [st EXCEPT !.panic = TRUE]
             ELSE IF ~Contains(mem, is, v)
                  THEN IF is.length \notin DOMAIN mem[is.set]
                       THEN [mem   |-> [mem EXCEPT ![is.keys][v] = is.length],
                             is    |-> is,
                             panic |-> TRUE]
                       ELSE [mem   |-> [mem EXCEPT ![is.keys][v] = is.length,
                                                   ![is.set][is.length] = v],
                             is    |-> [is EXCEPT !.length = @ + 1],
                             panic |-> FALSE]
                  ELSE st
        ELSE st

RECURSIVE AddLoop(_, _, _)
AddLoop(st, values, k) ==
    IF st.panic \/ k >= values.len
    THEN st
    ELSE AddLoop(AddOne(st, At(st.mem, values, k)), values, k + 1)

\* is.Add(values...): the memory and the receiver afterwards.
Add(mem, is, values) == AddLoop([mem |-> mem, is |-> is, panic |-> FALSE], values, 0)

\* Remove's loop body without is.keys[valueToMove] = valueToReplace.
RemoveOneNoKeyUpdate(st, v) ==
    LET mem == st.mem
        is  == st.is
    IN  IF Contains(mem, is, v)
        THEN LET valueToMove    == mem[is.set][is.length - 1]
                 valueToReplace == mem[is.keys][v]
             IN  [mem   |-> IF valueToMove # v
                            THEN [mem EXCEPT ![is.set][valueToReplace] = valueToMove]
                            ELSE mem,
                  is    |-> [is EXCEPT !.length = @ - 1],
                  panic |-> FALSE]
        ELSE st

\* Remove's loop body with is.length-- inside the test valueToMove != v: the
\* last member is never removed.
RemoveOneKeepLast(st, v) ==
    LET mem == st.mem
        is  == st.is
    IN  IF Contains(mem, is, v) /\ mem[is.set][is.length - 1] # v
        THEN LET valueToMove    == mem[is.set][is.length - 1]
                 valueToReplace == mem[is.keys][v]
             IN  [mem   |-> [mem EXCEPT ![is.set][valueToReplace] = valueToMove,
                                        ![is.keys][valueToMove] = valueToReplace],
                  is    |-> [is EXCEPT !.length = @ - 1],
                  panic |-> FALSE]
        ELSE st

\* One iteration of Remove's loop for the value v (after the length == 0 test).
RemoveOne(st, v) ==
    LET mem == st.mem
        is  == st.is
    IN  IF ContainsPanics(mem, is, v)
        THEN [st EXCEPT !.panic = TRUE]
        ELSE IF Contains(mem, is, v)
             THEN IF is.length - 1 \notin DOMAIN mem[is.set]
                  THEN [st EXCEPT !.panic = TRUE]
                  ELSE
                  LET valueToMove == mem[is.set][is.length - 1]
                  IN  IF valueToMove # v
                      THEN LET valueToReplace == mem[is.keys][v]
                           IN  IF valueToMove \notin DOMAIN mem[is.keys]
                               THEN [mem   |-> [mem EXCEPT ![is.set][valueToReplace] = valueToMove],
                                     is    |-> is,
                                     panic |-> TRUE]
                               ELSE [mem   |-> [mem EXCEPT ![is.set][valueToReplace] = valueToMove,
                                                           ![is.keys][valueToMove] = valueToReplace],
                                     is    |-> [is EXCEPT !.length = @ - 1],
                                     panic |-> FALSE]
                      ELSE [st EXCEPT !.is.length = @ - 1]
             ELSE st

RECURSIVE RemoveLoop(_, _, _)
RemoveLoop(st, values, k) ==
    IF st.panic \/ k >= values.len \/ st.is.length = 0
    THEN st
    ELSE RemoveLoop(RemoveOne(st, At(st.mem, values, k)), values, k + 1)

\* is.Remove(values...)
Remove(mem, is, values) == RemoveLoop([mem |-> mem, is |-> is, panic |-> FALSE], values, 0)

\* New(universeSize, values...): two fresh arrays, then Add.
New(mem, universeSize, values) ==
    LET keys == FreshId(mem)
        mem1 == [id \in DOMAIN mem \cup {keys} |-> IF id = keys THEN MakeArray(universeSize) ELSE mem[id]]
        set  == FreshId(mem1)
        mem2 == [id \in DOMAIN mem1 \cup {set} |-> IF id = set THEN MakeArray(universeSize) ELSE mem1[id]]
    IN  Add(mem2, [length |-> 0, keys |-> keys, set |-> set], values)

\* Copy that returns a set over the receiver's own arrays.
CopyShared(mem, is) == [mem |-> mem, is |-> is, panic |-> FALSE]

\* Copy into a universe of the size of the count: New(is.length, ...).
CopyCountUniverse(mem, is) == New(mem, is.length, SliceOf(is))

\* is.Copy()
Copy(mem, is) == New(mem, ArrLen(mem[is.keys]), SliceOf(is))

\* is.Length(), is.Empty(), is.UniverseSize()
Length(is) == is.length
Empty(is) == is.length = 0
UniverseSize(mem, is) == ArrLen(mem[is.keys])

\* is.Values(): a new slice with a copy of is.set[:is.length].
Values(mem, is) == [i \in 0 .. is.length - 1 |-> mem[is.set][i]]

\* Values that returns is.set[:is.length] itself.
ValuesAlias(mem, is) == [mem |-> mem, slice |-> SliceOf(is), panic |-> FALSE]

\* is.Values() on the heap: make([]int, is.length) allocates the array of the
\* result, copy fills it.  (make panics on a negative length, the slice
\* expression on a length beyond the array.)
ValuesOn(mem, is) ==
    IF is.length < 0 \/ is.length > ArrLen(mem[is.set])
    THEN [mem |-> mem, slice |-> Lit(<< >>), panic |-> TRUE]
    ELSE LET id == FreshId(mem)
         IN  [mem   |-> [i \in DOMAIN mem \cup {id} |->
                            IF i = id THEN Values(mem, is) ELSE mem[i]],
              slice |-> [base |-> id, lit |-> << >>, len |-> is.length],
              panic |-> FALSE]

\* What rand.Int(rand.Reader, max) can do: fail, or draw ip in [0, max).
Draws(max) == {[fail |-> TRUE, ip |-> 0]} \cup {[fail |-> FALSE, ip |-> i] : i \in 0 .. max - 1}

\* Choose without the Empty test: rand.Int panics on max <= 0.
ChooseNoEmptyTest(mem, is, rnd) ==
    IF is.length <= 0 \/ (~rnd.fail /\ rnd.ip \notin DOMAIN mem[is.set])
    THEN [choice |-> 0, err |-> FALSE, read |-> TRUE, panic |-> TRUE]
    ELSE IF rnd.fail
    THEN [choice |-> 0, err |-> TRUE, read |-> TRUE, panic |-> FALSE]
    ELSE [choice |-> mem[is.set][rnd.ip], err |-> FALSE, read |-> TRUE, panic |-> FALSE]

\* Choose that reads the slot after the one drawn: is.set[ip.Int64() + 1].
ChooseNextSlot(mem, is, rnd) ==
    IF Empty(is)
    THEN [choice |-> 0, err |-> FALSE, read |-> FALSE, panic |-> FALSE]
    ELSE IF rnd.fail
    THEN [choice |-> 0, err |-> TRUE, read |-> TRUE, panic |-> FALSE]
    ELSE IF rnd.ip + 1 \notin DOMAIN mem[is.set]
    THEN [choice |-> 0, err |-> FALSE, read |-> TRUE, panic |-> TRUE]
    ELSE [choice |-> mem[is.set][rnd.ip + 1], err |-> FALSE, read |-> TRUE, panic |-> FALSE]

\* is.Choose() where the random source does rnd: the value and error returned,
\* whether the random source was read, and whether the call panicked (rand.Int
\* panics on max <= 0, the index expression on an index outside is.set).
Choose(mem, is, rnd) ==
    IF Empty(is)
    THEN [choice |-> 0, err |-> FALSE, read |-> FALSE, panic |-> FALSE]
    ELSE IF is.length < 0
    THEN [choice |-> 0, err |-> FALSE, read |-> TRUE, panic |-> TRUE]
    ELSE IF rnd.fail
    THEN [choice |-> 0, err |-> TRUE, read |-> TRUE, panic |-> FALSE]
    ELSE IF rnd.ip \notin DOMAIN mem[is.set]
    THEN [choice |-> 0, err |-> FALSE, read |-> TRUE, panic |-> TRUE]
    ELSE [choice |-> mem[is.set][rnd.ip], err |-> FALSE, read |-> TRUE, panic |-> FALSE]

\* Difference that cuts other.set at the receiver's count: other.set[:is.length].
DifferenceOwnLength(mem, is, other) ==
    IF is.length > ArrLen(mem[other.set])
    THEN [mem |-> mem, is |-> is, panic |-> TRUE]
    ELSE Remove(mem, is, [base |-> other.set, lit |-> << >>, len |-> is.length])

\* is.Union(other), is.Difference(other): in place on the receiver.
Union(mem, is, other) == Add(mem, is, SliceOf(other))
Difference(mem, is, other) == Remove(mem, is, SliceOf(other))

\* Union(lhs, rhs) with the operands exchanged: rhs.Copy().Union(lhs).
UnionOfSwapped(mem, lhs, rhs) ==
    LET c == Copy(mem, rhs)
    IN  IF c.panic THEN c ELSE Union(c.mem, c.is, lhs)

\* Difference(lhs, rhs) without the copy: lhs.Difference(rhs).
DifferenceOfInPlace(mem, lhs, rhs) == Difference(mem, lhs, rhs)

\* Union(lhs, rhs), Difference(lhs, rhs): the free functions, on a copy of lhs.
UnionOf(mem, lhs, rhs) ==
    LET c == Copy(mem, lhs)
    IN  IF c.panic THEN c ELSE Union(c.mem, c.is, rhs)

DifferenceOf(mem, lhs, rhs) ==
    LET c == Copy(mem, lhs)
    IN  IF c.panic THEN c ELSE Difference(c.mem, c.is, rhs)

----------------------------------------------------------------------------
\* The second variant (src/intset.go lines 192-300).

\* Contains indexes is.keys with any value below len(is.keys), negative ones too.
ContainsPanicsV2(mem, is, value) ==
    /\ value < ArrLen(mem[is.keys])
    /\ \/ value < 0
       \/ /\ mem[is.keys][value] < is.length
          /\ mem[is.keys][value] \notin DOMAIN mem[is.set]

ContainsV2(mem, is, value) ==
    /\ value < ArrLen(mem[is.keys])
    /\ value \in DOMAIN mem[is.keys]
    /\ mem[is.keys][value] < is.length
    /\ mem[is.keys][value] \in DOMAIN mem[is.set]
    /\ mem[is.set][mem[is.keys][value]] = value

AddOneV2(st, v) ==
    LET mem == st.mem
        is  == st.is
    IN  IF 0 <= v /\ v < ArrLen(mem[is.keys])
        THEN IF ContainsPanicsV2(mem, is, v)
             THEN [st EXCEPT !.panic = TRUE]
             ELSE IF ~ContainsV2(mem, is, v)
                  THEN IF is.length \notin DOMAIN mem[is.set]
                       THEN [mem   |-> [mem EXCEPT ![is.keys][v] = is.length],
                             is    |-> is,
                             panic |-> TRUE]
                       ELSE [mem   |-> [mem EXCEPT ![is.keys][v] = is.length,
                                                   ![is.set][is.length] = v],
                             is    |-> [is EXCEPT !.length = @ + 1],
                             panic |-> FALSE]
                  ELSE st
        ELSE st

RECURSIVE AddLoopV2(_, _, _)
AddLoopV2(st, values, k) ==
    IF st.panic \/ k >= values.len
    THEN st
    ELSE AddLoopV2(AddOneV2(st, At(st.mem, values, k)), values, k + 1)

AddV2(mem, is, values) == AddLoopV2([mem |-> mem, is |-> is, panic |-> FALSE], values, 0)

\* One iteration of Remove's loop: no test of the length, and the last value
\* is written over the removed one also when they are the same value.
RemoveOneV2(st, v) ==
    LET mem == st.mem
        is  == st.is
    IN  IF ContainsPanicsV2(mem, is, v)
        THEN [st EXCEPT !.panic = TRUE]
        ELSE IF ContainsV2(mem, is, v)
             THEN IF is.length - 1 \notin DOMAIN mem[is.set]
                  THEN [st EXCEPT !.panic = TRUE]
                  ELSE
                  LET kMoving       == mem[is.set][is.length - 1]
                      kToBeReplaced == mem[is.keys][v]
                  IN  IF kMoving \notin DOMAIN mem[is.keys]
                      THEN [mem   |-> [mem EXCEPT ![is.set][kToBeReplaced] = kMoving],
                            is    |-> is,
                            panic |-> TRUE]
                      ELSE [mem   |-> [mem EXCEPT ![is.set][kToBeReplaced] = kMoving,
                                                  ![is.keys][kMoving] = kToBeReplaced],
                            is    |-> [is EXCEPT !.length = @ - 1],
                            panic |-> FALSE]
             ELSE st

RECURSIVE RemoveLoopV2(_, _, _)
RemoveLoopV2(st, values, k) ==
    IF st.panic \/ k >= values.len
    THEN st
    ELSE RemoveLoopV2(RemoveOneV2(st, At(st.mem, values, k)), values, k + 1)

RemoveV2(mem, is, values) == RemoveLoopV2([mem |-> mem, is |-> is, panic |-> FALSE], values, 0)

NewV2(mem, size, values) ==
    LET keys == FreshId(mem)
        mem1 == [id \in DOMAIN mem \cup {keys} |-> IF id = keys THEN MakeArray(size) ELSE mem[id]]
        set  == FreshId(mem1)
        mem2 == [id \in DOMAIN mem1 \cup {set} |-> IF id = set THEN MakeArray(size) ELSE mem1[id]]
    IN  AddV2(mem2, [length |-> 0, keys |-> keys, set |-> set], values)

CopyV2(mem, is) == NewV2(mem, ArrLen(mem[is.keys]), SliceOf(is))

Capacity(mem, is) == ArrLen(mem[is.keys])

UnionV2(mem, is, rhs) == AddV2(mem, is, SliceOf(rhs))
DifferenceV2(mem, is, rhs) == RemoveV2(mem, is, SliceOf(rhs))

UnionOfV2(mem, lhs, rhs) ==
    LET c == CopyV2(mem, lhs)
    IN  IF c.panic THEN c ELSE UnionV2(c.mem, c.is, rhs)

DifferenceOfV2(mem, lhs, rhs) ==
    LET c == CopyV2(mem, lhs)
    IN  IF c.panic THEN c ELSE DifferenceV2(c.mem, c.is, rhs)

----------------------------------------------------------------------------
\* The state: the heap of each variant, the last call made and what it
\* returned, and the mathematical sets the same calls build (abs) with the
\* universe sizes they were made with (uni); and the slice the caller holds
\* from the last Values() call of the first variant (got), whose array is on
\* the heap h1.

VARIABLES h1, h2, ret2, last, abs, uni, got

vars == <<h1, h2, ret2, last, abs, uni, got>>

\* A panic ends the program: its heap is gone.
Crashed == [obj |-> [t \in Handles |-> [length |-> 0, keys |-> 0, set |-> 0]],
            mem |-> << >>,
            panic |-> TRUE]

\* The home addresses of the arrays of the set a variable holds.
HomeKeys(t) == IF t = HandleSeq[1] THEN 1 ELSE 3
HomeSet(t) == IF t = HandleSeq[1] THEN 2 ELSE 4

\* Arrays no variable refers to are garbage, and an address means nothing: the
\* arrays of the set now in t move to the home addresses of t, unless they
\* are shared with another variable's set or with the slice the caller holds.
Normalize(obj, mem, t) ==
    LET others == UNION {{obj[o].keys, obj[o].set} : o \in Handles \ {t}}
                      \cup ({got.base} \cap DOMAIN mem)
        movable == /\ HomeKeys(t) \notin others
                   /\ HomeSet(t) \notin others
                   /\ obj[t].keys \notin others
                   /\ obj[t].set \notin others
                   /\ obj[t].keys # obj[t].set
        k == IF movable THEN HomeKeys(t) ELSE obj[t].keys
        s == IF movable THEN HomeSet(t) ELSE obj[t].set
    IN  [obj   |-> [obj EXCEPT ![t] = [length |-> obj[t].length, keys |-> k, set |-> s]],
         mem   |-> [id \in others \cup {k, s} |->
                       IF id = k /\ movable THEN mem[obj[t].keys]
                       ELSE IF id = s /\ movable THEN mem[obj[t].set]
                       ELSE mem[id]],
         panic |-> FALSE]

\* The caller's assignment t = <the set a call returned>.
Store(h, t, res) ==
    IF h.panic THEN h
    ELSE IF res.panic THEN Crashed
    ELSE Normalize([h.obj EXCEPT ![t] = res.is], res.mem, t)

InUniverse(u, vs) == {v \in vs : 0 <= v /\ v < u}
Range(seq) == {seq[i] : i \in DOMAIN seq}

NoRnd == [fail |-> FALSE, ip |-> 0]

NoCall == [op |-> "none", tgt |-> "", lhs |-> "", rhs |-> "", size |-> 0,
           vals |-> << >>, ret |-> FALSE,
           rnd |-> NoRnd, choice |-> 0, err |-> FALSE, read |-> FALSE]

\* a = New(ua); b = New(ub) in the first variant.
InitV1(ua, ub) ==
    LET n1 == New(<< >>, ua, Lit(<< >>))
        n2 == New(n1.mem, ub, Lit(<< >>))
    IN  /\ h1 = [obj   |-> [t \in Handles |-> IF t = HandleSeq[1] THEN n1.is ELSE n2.is],
                 mem   |-> n2.mem,
                 panic |-> FALSE]
        /\ last = NoCall
        /\ abs = [t \in Handles |-> {}]
        /\ uni = [t \in Handles |-> IF t = HandleSeq[1] THEN ua ELSE ub]
        /\ got = Lit(<< >>)

\* a = New(ua); b = New(ub) in the second variant.
InitV2(ua, ub) ==
    LET m1 == NewV2(<< >>, ua, Lit(<< >>))
        m2 == NewV2(m1.mem, ub, Lit(<< >>))
    IN  /\ h2 = [obj   |-> [t \in Handles |-> IF t = HandleSeq[1] THEN m1.is ELSE m2.is],
                 mem   |-> m2.mem,
                 panic |-> FALSE]
        /\ ret2 = FALSE

\* Where only the first variant runs, the second stays as New(0), New(0) left it.
Init == \E ua, ub \in UniverseSizes : InitV1(ua, ub) /\ InitV2(0, 0)

\* t = New(universeSize, vals...)
NewCall(t, universeSize, vals) ==
    /\ h1' = Store(h1, t, New(h1.mem, universeSize, Lit(vals)))
    /\ last' = [NoCall EXCEPT !.op = "New", !.tgt = t, !.size = universeSize, !.vals = vals]
    /\ abs' = [abs EXCEPT ![t] = InUniverse(universeSize, Range(vals))]
    /\ uni' = [uni EXCEPT ![t] = universeSize]

NewCallV2(t, size, vals) ==
    /\ h2' = Store(h2, t, NewV2(h2.mem, size, Lit(vals)))
    /\ ret2' = FALSE

\* t.Add(vals...)
AddCall(t, vals) ==
    /\ h1' = Store(h1, t, Add(h1.mem, h1.obj[t], Lit(vals)))
    /\ last' = [NoCall EXCEPT !.op = "Add", !.tgt = t, !.vals = vals]
    /\ abs' = [abs EXCEPT ![t] = @ \cup InUniverse(uni[t], Range(vals))]
    /\ UNCHANGED uni

AddCallV2(t, vals) ==
    /\ h2' = Store(h2, t, AddV2(h2.mem, h2.obj[t], Lit(vals)))
    /\ ret2' = FALSE

\* t.Remove(vals...)
RemoveCall(t, vals) ==
    /\ h1' = Store(h1, t, Remove(h1.mem, h1.obj[t], Lit(vals)))
    /\ last' = [NoCall EXCEPT !.op = "Remove", !.tgt = t, !.vals = vals]
    /\ abs' = [abs EXCEPT ![t] = @ \ Range(vals)]
    /\ UNCHANGED uni

RemoveCallV2(t, vals) ==
    /\ h2' = Store(h2, t, RemoveV2(h2.mem, h2.obj[t], Lit(vals)))
    /\ ret2' = FALSE

\* t.Union(o)
UnionCall(t, o) ==
    /\ h1' = Store(h1, t, Union(h1.mem, h1.obj[t], h1.obj[o]))
    /\ last' = [NoCall EXCEPT !.op = "Union", !.tgt = t, !.rhs = o]
    /\ abs' = [abs EXCEPT ![t] = @ \cup InUniverse(uni[t], abs[o])]
    /\ UNCHANGED uni

UnionCallV2(t, o) ==
    /\ h2' = Store(h2, t, UnionV2(h2.mem, h2.obj[t], h2.obj[o]))
    /\ ret2' = FALSE

\* t.Difference(o)
DifferenceCall(t, o) ==
    /\ h1' = Store(h1, t, Difference(h1.mem, h1.obj[t], h1.obj[o]))
    /\ last' = [NoCall EXCEPT !.op = "Difference", !.tgt = t, !.rhs = o]
    /\ abs' = [abs EXCEPT ![t] = @ \ abs[o]]
    /\ UNCHANGED uni

DifferenceCallV2(t, o) ==
    /\ h2' = Store(h2, t, DifferenceV2(h2.mem, h2.obj[t], h2.obj[o]))
    /\ ret2' = FALSE

\* t = Union(l, r)
UnionOfCall(t, l, r) ==
    /\ h1' = Store(h1, t, UnionOf(h1.mem, h1.obj[l], h1.obj[r]))
    /\ last' = [NoCall EXCEPT !.op = "UnionOf", !.tgt = t, !.lhs = l, !.rhs = r]
    /\ abs' = [abs EXCEPT ![t] = abs[l] \cup InUniverse(uni[l], abs[r])]
    /\ uni' = [uni EXCEPT ![t] = uni[l]]

UnionOfCallV2(t, l, r) ==
    /\ h2' = Store(h2, t, UnionOfV2(h2.mem, h2.obj[l], h2.obj[r]))
    /\ ret2' = FALSE

\* t = Difference(l, r)
DifferenceOfCall(t, l, r) ==
    /\ h1' = Store(h1, t, DifferenceOf(h1.mem, h1.obj[l], h1.obj[r]))
    /\ last' = [NoCall EXCEPT !.op = "DifferenceOf", !.tgt = t, !.lhs = l, !.rhs = r]
    /\ abs' = [abs EXCEPT ![t] = abs[l] \ abs[r]]
    /\ uni' = [uni EXCEPT ![t] = uni[l]]

DifferenceOfCallV2(t, l, r) ==
    /\ h2' = Store(h2, t, DifferenceOfV2(h2.mem, h2.obj[l], h2.obj[r]))
    /\ ret2' = FALSE

\* t = s.Copy()
CopyCall(t, s) ==
    /\ h1' = Store(h1, t, Copy(h1.mem, h1.obj[s]))
    /\ last' = [NoCall EXCEPT !.op = "Copy", !.tgt = t, !.lhs = s]
    /\ abs' = [abs EXCEPT ![t] = abs[s]]
    /\ uni' = [uni EXCEPT ![t] = uni[s]]

CopyCallV2(t, s) ==
    /\ h2' = Store(h2, t, CopyV2(h2.mem, h2.obj[s]))
    /\ ret2' = FALSE

\* t.Contains(v): the answer is kept in last.ret (ret2 for the second variant).
ContainsCall(t, v) ==
    /\ h1' = IF h1.panic \/ ~ContainsPanics(h1.mem, h1.obj[t], v) THEN h1 ELSE Crashed
    /\ last' = [NoCall EXCEPT !.op = "Contains", !.tgt = t, !.vals = <<v>>,
                              !.ret = ~h1'.panic /\ Contains(h1.mem, h1.obj[t], v)]
    /\ UNCHANGED <<abs, uni>>

ContainsCallV2(t, v) ==
    /\ h2' = IF h2.panic \/ ~ContainsPanicsV2(h2.mem, h2.obj[t], v) THEN h2 ELSE Crashed
    /\ ret2' = (~h2'.panic /\ ContainsV2(h2.mem, h2.obj[t], v))

\* t.Choose() where the random source does rnd: what it returned is kept in
\* last.choice and last.err, and whether it read the random source in last.read.
ChooseCall(t, rnd) ==
    LET c == IF h1.panic THEN [choice |-> 0, err |-> FALSE, read |-> FALSE, panic |-> TRUE]
             ELSE Choose(h1.mem, h1.obj[t], rnd)
    IN  /\ h1' = IF h1.panic \/ ~c.panic THEN h1 ELSE Crashed
        /\ last' = [NoCall EXCEPT !.op = "Choose", !.tgt = t, !.rnd = rnd,
                                  !.choice = c.choice, !.err = c.err, !.read = c.read]
        /\ UNCHANGED <<abs, uni>>

\* The first variant alone, two sets.  (Contains changes nothing: the claims
\* about two sets read it off the state, and the other specifications call it.)
Next ==
    \/ \E t \in Handles, u \in UniverseSizes : \E vals \in ArgLists(ValuesNear(u)) :
          NewCall(t, u, vals) /\ UNCHANGED <<h2, ret2, got>>
    \/ \E t \in Handles : \E vals \in ArgLists(ValuesNear(uni[t])) :
          AddCall(t, vals) /\ UNCHANGED <<h2, ret2, got>>
    \/ \E t \in Handles : \E vals \in ArgLists(ValuesNear(uni[t])) :
          RemoveCall(t, vals) /\ UNCHANGED <<h2, ret2, got>>
    \/ \E t, o \in Handles : UnionCall(t, o) /\ UNCHANGED <<h2, ret2, got>>
    \/ \E t, o \in Handles : DifferenceCall(t, o) /\ UNCHANGED <<h2, ret2, got>>
    \/ \E t, l, r \in Handles : UnionOfCall(t, l, r) /\ UNCHANGED <<h2, ret2, got>>
    \/ \E t, l, r \in Handles : DifferenceOfCall(t, l, r) /\ UNCHANGED <<h2, ret2, got>>
    \/ \E t, s \in Handles : CopyCall(t, s) /\ UNCHANGED <<h2, ret2, got>>

Spec == Init /\ [][Next]_vars

\* The first variant alone, one set of a universe size up to 3.
Solo == {HandleSeq[1]}

InitSolo == \E ua \in SoloUniverseSizes : InitV1(ua, 0) /\ InitV2(0, 0)

NextSolo ==
    \/ \E t \in Solo, u \in SoloUniverseSizes : \E vals \in ArgLists(ValuesNear(u)) :
          NewCall(t, u, vals) /\ UNCHANGED <<h2, ret2, got>>
    \/ \E t \in Solo : \E vals \in ArgLists(ValuesNear(uni[t])) :
          AddCall(t, vals) /\ UNCHANGED <<h2, ret2, got>>
    \/ \E t \in Solo : \E vals \in ArgLists(ValuesNear(uni[t])) :
          RemoveCall(t, vals) /\ UNCHANGED <<h2, ret2, got>>
    \/ \E t, o \in Solo : UnionCall(t, o) /\ UNCHANGED <<h2, ret2, got>>
    \/ \E t, o \in Solo : DifferenceCall(t, o) /\ UNCHANGED <<h2, ret2, got>>
    \/ \E t, l, r \in Solo : UnionOfCall(t, l, r) /\ UNCHANGED <<h2, ret2, got>>
    \/ \E t, l, r \in Solo : DifferenceOfCall(t, l, r) /\ UNCHANGED <<h2, ret2, got>>
    \/ \E t, s \in Solo : CopyCall(t, s) /\ UNCHANGED <<h2, ret2, got>>
    \/ \E t \in Solo : \E v \in ValuesNear(uni[t]) : ContainsCall(t, v) /\ UNCHANGED <<h2, ret2, got>>
    \/ \E t \in Solo : \E rnd \in Draws(Length(h1.obj[t])) : ChooseCall(t, rnd) /\ UNCHANGED <<h2, ret2, got>>

SpecSolo == InitSolo /\ [][NextSolo]_vars

\* Both variants, driven by the same calls on one set.  (Every state of a set
\* is reached by calls on that set alone: Union and Difference are Add and
\* Remove of the other set's values.)
InitBoth == \E ua \in UniverseSizes : InitV1(ua, 0) /\ InitV2(ua, 0)

NextBoth ==
    \/ \E t \in Solo, u \in UniverseSizes : \E vals \in ArgLists(ValuesNear(u)) :
          NewCall(t, u, vals) /\ NewCallV2(t, u, vals) /\ UNCHANGED got
    \/ \E t \in Solo : \E vals \in ArgLists(ValuesNear(uni[t])) :
          AddCall(t, vals) /\ AddCallV2(t, vals) /\ UNCHANGED got
    \/ \E t \in Solo : \E vals \in ArgLists(ValuesNear(uni[t])) :
          RemoveCall(t, vals) /\ RemoveCallV2(t, vals) /\ UNCHANGED got
    \/ \E t, o \in Solo : UnionCall(t, o) /\ UnionCallV2(t, o) /\ UNCHANGED got
    \/ \E t, o \in Solo : DifferenceCall(t, o) /\ DifferenceCallV2(t, o) /\ UNCHANGED got
    \/ \E t, l, r \in Solo : UnionOfCall(t, l, r) /\ UnionOfCallV2(t, l, r) /\ UNCHANGED got
    \/ \E t, l, r \in Solo : DifferenceOfCall(t, l, r) /\ DifferenceOfCallV2(t, l, r) /\ UNCHANGED got
    \/ \E t, s \in Solo : CopyCall(t, s) /\ CopyCallV2(t, s) /\ UNCHANGED got
    \/ \E t \in Solo : \E v \in ValuesNear(uni[t]) : ContainsCall(t, v) /\ ContainsCallV2(t, v) /\ UNCHANGED got

SpecBoth == InitBoth /\ [][NextBoth]_vars

\* The arrays the sets of h use.
SetArrays(h) == UNION {{h.obj[o].keys, h.obj[o].set} : o \in Handles}

\* got = t.Values(): the slice held before is dropped, its array is garbage.
ValuesCall(t) ==
    LET live == [id \in SetArrays(h1) |-> h1.mem[id]]
        r    == ValuesOn(live, h1.obj[t])
    IN  /\ ~h1.panic
        /\ h1' = IF r.panic THEN Crashed ELSE [h1 EXCEPT !.mem = r.mem]
        /\ got' = IF r.panic THEN Lit(<< >>) ELSE r.slice
        /\ last' = [NoCall EXCEPT !.op = "Values", !.tgt = t]
        /\ UNCHANGED <<abs, uni>>

\* got[i] = v: the caller writes to the slice Values() returned.
WriteCall(i, v) ==
    /\ ~h1.panic
    /\ got.base \in DOMAIN h1.mem
    /\ i \in 0 .. got.len - 1
    /\ h1' = [h1 EXCEPT !.mem[got.base][i] = v]
    /\ last' = [NoCall EXCEPT !.op = "Write", !.vals = <<i, v>>]
    /\ UNCHANGED <<abs, uni, got>>

\* The values the caller writes: one that no set holds and two that a set may.
WriteValues == {-1, 0, 1}

\* The first variant alone, one set of a universe size up to 2 and the slice
\* that Values() returned.
NextValues ==
    \/ \E t \in Solo, u \in UniverseSizes : \E vals \in ArgLists(ValuesNear(u)) :
          NewCall(t, u, vals) /\ UNCHANGED <<h2, ret2, got>>
    \/ \E t \in Solo : \E vals \in ArgLists(ValuesNear(uni[t])) :
          AddCall(t, vals) /\ UNCHANGED <<h2, ret2, got>>
    \/ \E t \in Solo : \E vals \in ArgLists(ValuesNear(uni[t])) :
          RemoveCall(t, vals) /\ UNCHANGED <<h2, ret2, got>>
    \/ \E t, o \in Solo : UnionCall(t, o) /\ UNCHANGED <<h2, ret2, got>>
    \/ \E t, o \in Solo : DifferenceCall(t, o) /\ UNCHANGED <<h2, ret2, got>>
    \/ \E t, s \in Solo : CopyCall(t, s) /\ UNCHANGED <<h2, ret2, got>>
    \/ \E t \in Solo : ValuesCall(t) /\ UNCHANGED <<h2, ret2>>
    \/ \E i \in 0 .. got.len - 1, v \in WriteValues : WriteCall(i, v) /\ UNCHANGED <<h2, ret2>>

InitValues == \E ua \in UniverseSizes : InitV1(ua, 0) /\ InitV2(0, 0)

SpecValues == InitValues /\ [][NextValues]_vars

----------------------------------------------------------------------------
\* What the claims are stated with.

\* The values a claim probes a set with.
Probe == -1 .. 4

\* t.Contains(v) in the heap h of the first variant, and the set of members.
Has(h, t, v) == Contains(h.mem, h.obj[t], v)
Members(h, t) == {v \in Probe : Has(h, t, v)}
HasV2(h, t, v) == ContainsV2(h.mem, h.obj[t], v)

\* The membership test spelled out on the arrays: slotOf is keys, members is set.
SlotTest(h, t, v) ==
    LET is == h.obj[t]
    IN  /\ 0 <= v
        /\ v < ArrLen(h.mem[is.keys])
        /\ h.mem[is.keys][v] < is.length
        /\ h.mem[is.set][h.mem[is.keys][v]] = v

\* C1: a value is a member iff it is inside the universe and its slot is below
\* the count and holds the value, and that is so exactly for the values added
\* and not removed since (the mathematical set abs the same calls build).
C1_Membership ==
    /\ ~h1.panic
    /\ \A t \in Handles, v \in Probe :
          /\ Has(h1, t, v) <=> SlotTest(h1, t, v)
          /\ Has(h1, t, v) <=> v \in abs[t]

\* C1 witness: Remove(v) has swapped the last member w into the slot of v: the
\* stale slot of v still points below the count, at a slot that now holds w
\* (w is not 0, the value of a slot never written).
C1_Witness ==
    /\ last.op = "Remove"
    /\ ~h1.panic
    /\ \E v \in Probe :
          LET is == h1.obj[last.tgt]
          IN  /\ last.vals = <<v>>
              /\ 0 <= v /\ v < uni[last.tgt]
              /\ v \notin abs[last.tgt]
              /\ h1.mem[is.keys][v] < is.length
              /\ h1.mem[is.set][h1.mem[is.keys][v]] # v
              /\ h1.mem[is.set][h1.mem[is.keys][v]] = h1.mem[is.set][is.length]
              /\ h1.mem[is.set][is.length] # 0
              /\ ~Has(h1, last.tgt, v)

\* C2: after Add(v) with v inside the universe, Contains(v) is true, and a
\* second Add(v) changes neither the length nor the arrays.
C2_AddThenContains ==
    last.op = "Add" =>
        /\ ~h1.panic
        /\ LET is    == h1.obj[last.tgt]
               again == Add(h1.mem, is, Lit(last.vals))
           IN  /\ \A i \in DOMAIN last.vals :
                     (0 <= last.vals[i] /\ last.vals[i] < UniverseSize(h1.mem, is))
                         => Contains(h1.mem, is, last.vals[i])
               /\ ~again.panic
               /\ Length(again.is) = Length(is)
               /\ again.mem = h1.mem

\* C2 witness: Add(2) has put 2 into the third slot of a set of universe size 3
\* that held two other members (as New(5, 1, 2, 4) then Add(3), in a smaller universe).
C2_Witness ==
    /\ last.op = "Add"
    /\ last.vals = <<2>>
    /\ ~h1.panic
    /\ uni[last.tgt] = 3
    /\ Has(h1, last.tgt, 2)
    /\ Length(h1.obj[last.tgt]) = 3
    /\ h1.mem[h1.obj[last.tgt].set][2] = 2

\* C3: after Remove(v), for v of any sign, Contains(v) is false, and Remove of
\* a value that is absent, outside the universe or negative is no fault, in
\* both variants.
C3_RemoveThenAbsent ==
    last.op = "Remove" =>
        /\ ~h1.panic
        /\ ~h2.panic
        /\ \A i \in DOMAIN last.vals :
              /\ ~Has(h1, last.tgt, last.vals[i])
              /\ ~HasV2(h2, last.tgt, last.vals[i])

\* The sets are the same before and after a step, seen through Length and Contains.
SameSet(h, g, t) ==
    /\ Length(g.obj[t]) = Length(h.obj[t])
    /\ \A w \in Probe : Has(g, t, w) <=> Has(h, t, w)

\* The same for the second variant, whose Contains takes no negative value.
SameSetV2(h, g, t) ==
    /\ Length(g.obj[t]) = Length(h.obj[t])
    /\ \A w \in Probe : w >= 0 => (HasV2(g, t, w) <=> HasV2(h, t, w))

C5_InputsUntouched ==
    /\ ~h1.panic
    /\ \A l, r \in Handles :
          \A out \in {UnionOf(h1.mem, h1.obj[l], h1.obj[r]),
                      DifferenceOf(h1.mem, h1.obj[l], h1.obj[r])} :
              /\ ~out.panic
              /\ out.is.keys \notin DOMAIN h1.mem
              /\ out.is.set \notin DOMAIN h1.mem
              /\ \A id \in DOMAIN h1.mem : out.mem[id] = h1.mem[id]
              /\ Values(out.mem, h1.obj[l]) = Values(h1.mem, h1.obj[l])
              /\ Values(out.mem, h1.obj[r]) = Values(h1.mem, h1.obj[r])

\* C5 witness: b = Difference(a, b) has run with members that a and b share:
\* a still holds its two members, b holds what is left of a's.
C5_Witness ==
    /\ last.op = "DifferenceOf"
    /\ last.tgt = "b" /\ last.lhs = "a" /\ last.rhs = "b"
    /\ ~h1.panic
    /\ Members(h1, "a") = {0, 1}
    /\ Length(h1.obj["b"]) = 1

\* No two sets share an array, and no set uses one array twice.
NoSharedStorage(h) ==
    \A t \in Handles :
        /\ h.obj[t].keys # h.obj[t].set
        /\ \A o \in Handles \ {t} :
              {h.obj[t].keys, h.obj[t].set} \cap {h.obj[o].keys, h.obj[o].set} = {}

\* C6: Copy returns a set of the receiver's universe size and members over
\* arrays of its own, and a call on one set changes no other set: its count
\* and both its arrays, which are all that Contains and Values read, stay.
C6_CopyIndependent ==
    [][ /\ ~h1'.panic
        /\ NoSharedStorage(h1')
        /\ last'.op = "Copy" =>
              /\ UniverseSize(h1'.mem, h1'.obj[last'.tgt]) = UniverseSize(h1.mem, h1.obj[last'.lhs])
              /\ Length(h1'.obj[last'.tgt]) = Length(h1.obj[last'.lhs])
              /\ Members(h1', last'.tgt) = Members(h1, last'.lhs)
        /\ \A o \in Handles \ {last'.tgt} :
              /\ h1'.obj[o] = h1.obj[o]
              /\ h1'.mem[h1'.obj[o].keys] = h1.mem[h1.obj[o].keys]
              /\ h1'.mem[h1'.obj[o].set] = h1.mem[h1.obj[o].set]
      ]_vars

\* C6 witness: b = a.Copy() of a set that had removed a member: b has a's
\* member in arrays of its own, without the stale values a's arrays keep.
C6_Witness ==
    /\ last.op = "Copy"
    /\ last.tgt = "b" /\ last.lhs = "a"
    /\ ~h1.panic
    /\ Members(h1, "a") = {1}
    /\ Members(h1, "b") = {1}
    /\ h1.mem[h1.obj["a"].set] # h1.mem[h1.obj["b"].set]

\* Every value of the last call lies outside the receiver's universe.
OutsideOnly(c) ==
    /\ c.vals # << >>
    /\ \A i \in DOMAIN c.vals : c.vals[i] < 0 \/ c.vals[i] >= uni[c.tgt]

\* C7: Add of values outside [0, universeSize) changes nothing and is no
\* fault, in both variants.
C7_AddOutside ==
    [][ (last'.op = "Add" /\ OutsideOnly(last')) =>
            /\ ~h1'.panic
            /\ h1' = h1
            /\ SameSet(h1, h1', last'.tgt)
            /\ ~h2.panic =>
                  /\ ~h2'.panic
                  /\ h2' = h2
                  /\ SameSetV2(h2, h2', last'.tgt)
      ]_vars

\* C7 witness: Add(2) on a full set of universe size 2, where an unchecked Add
\* would write one past the end of both arrays.
C7_Witness ==
    /\ last.op = "Add"
    /\ last.vals = <<2>>
    /\ uni[last.tgt] = 2
    /\ ~h1.panic /\ ~h2.panic
    /\ Length(h1.obj[last.tgt]) = 2
    /\ Length(h2.obj[last.tgt]) = 2

\* C8: Contains is no fault for any value and answers false for a value that
\* is negative or at or above the universe size, in both variants; and after
\* New(universeSize) without values, Contains(v) is false for every v.
C8_ContainsTotal ==
    /\ last.op = "Contains" =>
          /\ ~h1.panic
          /\ ~h2.panic
          /\ (last.vals[1] < 0 \/ last.vals[1] >= uni[last.tgt]) => (~last.ret /\ ~ret2)
    /\ (last.op = "New" /\ last.vals = << >>) =>
          /\ ~h1.panic
          /\ ~h2.panic
          /\ \A v \in Probe :
                /\ ~ContainsPanics(h1.mem, h1.obj[last.tgt], v)
                /\ ~Has(h1, last.tgt, v)
                /\ ~ContainsPanicsV2(h2.mem, h2.obj[last.tgt], v)
                /\ ~HasV2(h2, last.tgt, v)

\* C9: when every value added to a set has been removed again, whatever the
\* order and however often it was added, the set is empty: Length() is 0 and
\* Contains is false for every value.
C9_RoundTrip ==
    /\ ~h1.panic
    /\ \A t \in Handles :
          abs[t] = {} =>
              /\ Length(h1.obj[t]) = 0
              /\ Empty(h1.obj[t])
              /\ \A v \in Probe : ~Has(h1, t, v)

\* C9 witness: a Remove has emptied a set whose arrays show that three values
\* had been added and that a later one was swapped into an earlier slot.
C9_Witness ==
    /\ last.op = "Remove"
    /\ ~h1.panic
    /\ abs[last.tgt] = {}
    /\ uni[last.tgt] = 3
    /\ Length(h1.obj[last.tgt]) = 0
    /\ h1.mem[h1.obj[last.tgt].set][2] # 0
    /\ h1.mem[h1.obj[last.tgt].set][0] # 0
    /\ h1.mem[h1.obj[last.tgt].set][1] # 0

\* C10: the two variants, driven by the same calls, hold the same sets in the
\* same arrays, return the same answers, and neither faults.
C10_VariantsAgree ==
    /\ ~h1.panic
    /\ ~h2.panic
    /\ h2 = h1
    /\ ret2 = last.ret

\* C11: Choose on a non-empty set returns, whatever the draw in [0, count), a
\* value that is a member, and Choose leaves the set as it was.
C11_ChooseMember ==
    [][ last'.op = "Choose" =>
            /\ ~h1'.panic
            /\ h1' = h1
            /\ (~Empty(h1.obj[last'.tgt]) /\ ~last'.rnd.fail) =>
                  /\ ~last'.err
                  /\ Has(h1, last'.tgt, last'.choice)
                  /\ Has(h1', last'.tgt, last'.choice)
      ]_vars

\* C11 witness: Choose drew the last of two slots of a set of universe size 3
\* and returned the member there, while the third slot holds a stale value.
C11_Witness ==
    /\ last.op = "Choose"
    /\ ~h1.panic
    /\ uni[last.tgt] = 3
    /\ Length(h1.obj[last.tgt]) = 2
    /\ last.rnd = [fail |-> FALSE, ip |-> 1]
    /\ ~last.err
    /\ last.choice = h1.mem[h1.obj[last.tgt].set][1]
    /\ last.choice \in abs[last.tgt]
    /\ h1.mem[h1.obj[last.tgt].set][2] \notin abs[last.tgt]

\* C12: Choose returns an error only when the random source has failed, and
\* then the value 0 and the set as it was; on an empty set it returns (0, nil)
\* without reading the random source; and it never panics.
C12_ChooseError ==
    [][ last'.op = "Choose" =>
            /\ ~h1'.panic
            /\ last'.err => (last'.rnd.fail /\ last'.read /\ last'.choice = 0 /\ h1' = h1)
            /\ Empty(h1.obj[last'.tgt]) => (last'.choice = 0 /\ ~last'.err /\ ~last'.read)
      ]_vars

\* C12 witness: the random source failed under Choose on a set of two members.
C12_Witness ==
    /\ last.op = "Choose"
    /\ ~h1.panic
    /\ last.rnd.fail
    /\ last.err
    /\ last.choice = 0
    /\ abs[last.tgt] = {0, 1}
    /\ Length(h1.obj[last.tgt]) = 2

\* C13: Values() returns a new array of Length() elements, equal to the dense
\* prefix of members and holding each member once; a write to it leaves the set
\* as it was, and a later call on the set leaves it as it was.
C13_ValuesFresh ==
    [][ /\ ~h1'.panic
        /\ got'.base \notin SetArrays(h1')
        /\ last'.op = "Values" =>
              LET is == h1.obj[last'.tgt]
                  r  == h1'.mem[got'.base]
              IN  /\ got'.len = Length(is)
                  /\ DOMAIN r = 0 .. Length(is) - 1
                  /\ \A i \in DOMAIN r : r[i] = h1.mem[is.set][i]
                  /\ \A i, j \in DOMAIN r : r[i] = r[j] => i = j
                  /\ {r[i] : i \in DOMAIN r} = Members(h1, last'.tgt)
                  /\ h1'.obj = h1.obj
                  /\ \A id \in SetArrays(h1) : h1'.mem[id] = h1.mem[id]
        /\ last'.op = "Write" =>
              /\ h1'.obj = h1.obj
              /\ \A id \in SetArrays(h1) : h1'.mem[id] = h1.mem[id]
              /\ \A t \in Handles : SameSet(h1, h1', t)
        /\ last'.op \notin {"Values", "Write"} =>
              /\ got' = got
              /\ got.base # 0 => h1'.mem[got.base] = h1.mem[got.base]
      ]_vars

\* C13 witness: Values() returned (0, 1), the caller overwrote its first
\* element with -1, and a Remove then left the set with one member.
C13_Witness ==
    /\ last.op = "Remove"
    /\ ~h1.panic
    /\ got.len = 2
    /\ got.base \in DOMAIN h1.mem
    /\ h1.mem[got.base] = [i \in 0 .. 1 |-> IF i = 0 THEN -1 ELSE 1]
    /\ Members(h1, last.tgt) = {1}

\* C14: a set of universe size 0 is empty whatever is called on it or with it:
\* Length() is 0, Empty() holds, Contains is false for every value, Choose
\* returns (0, nil), and no call panics.
C14_ZeroUniverse ==
    /\ ~h1.panic
    /\ \A t \in Handles :
          uni[t] = 0 =>
              LET is == h1.obj[t]
              IN  /\ UniverseSize(h1.mem, is) = 0
                  /\ Length(is) = 0
                  /\ Empty(is)
                  /\ \A v \in Probe : ~ContainsPanics(h1.mem, is, v) /\ ~Has(h1, t, v)
                  /\ \A rnd \in Draws(Length(is)) :
                        Choose(h1.mem, is, rnd) =
                            [choice |-> 0, err |-> FALSE, read |-> FALSE, panic |-> FALSE]

\* C14 witness: a.Union(b) where a has universe size 0 and b holds 0 and 1.
C14_Witness ==
    /\ last.op = "Union"
    /\ last.tgt = "a" /\ last.rhs = "b"
    /\ ~h1.panic
    /\ uni["a"] = 0
    /\ Members(h1, "b") = {0, 1}
    /\ Length(h1.obj["a"]) = 0

\* C15: in every reachable state 0 <= count <= universeSize, both arrays have
\* universeSize elements, members[0:count) holds pairwise distinct values of
\* [0, universeSize), and slotOf[members[i]] = i for every i < count; no call
\* has indexed an array out of bounds.
C15_Structure ==
    /\ ~h1.panic
    /\ \A t \in Handles :
          LET is   == h1.obj[t]
              keys == h1.mem[is.keys]
              set  == h1.mem[is.set]
          IN  /\ 0 <= is.length
              /\ is.length <= UniverseSize(h1.mem, is)
              /\ UniverseSize(h1.mem, is) = uni[t]
              /\ DOMAIN keys = 0 .. uni[t] - 1
              /\ DOMAIN set = 0 .. uni[t] - 1
              /\ \A i \in 0 .. is.length - 1 :
                    /\ 0 <= set[i]
                    /\ set[i] < uni[t]
                    /\ keys[set[i]] = i
              /\ \A i, j \in 0 .. is.length - 1 : set[i] = set[j] => i = j

\* C15 witness: a Remove from a full set of universe size 3 has moved the last
\* member 2 into slot 0, and the slot it left still holds 2.
C15_Witness ==
    /\ last.op = "Remove"
    /\ ~h1.panic
    /\ uni[last.tgt] = 3
    /\ Length(h1.obj[last.tgt]) = 2
    /\ h1.mem[h1.obj[last.tgt].set][0] = 2
    /\ h1.mem[h1.obj[last.tgt].set][2] = 2
    /\ h1.mem[h1.obj[last.tgt].keys][2] = 0

\* What Remove(v) may change of the set t between the heaps h and g, with has
\* the membership test: if v was a member the count is one less, v is no
\* member and every other value is as before; if not, nothing has changed.
OnlyRemoved(h, g, t, v, has(_, _, _)) ==
    IF has(h, t, v)
    THEN /\ Length(g.obj[t]) = Length(h.obj[t]) - 1
         /\ ~has(g, t, v)
         /\ \A w \in Probe : (w # v /\ w >= 0) => (has(g, t, w) <=> has(h, t, w))
    ELSE /\ Length(g.obj[t]) = Length(h.obj[t])
         /\ \A w \in Probe : w >= 0 => (has(g, t, w) <=> has(h, t, w))

\* C16: Remove(v) takes v out of the set and nothing else, and changes nothing
\* when v is no member, whatever v is, in both variants.
C16_RemoveOnlyV ==
    [][ (last'.op = "Remove" /\ Len(last'.vals) = 1) =>
            /\ ~h1'.panic
            /\ OnlyRemoved(h1, h1', last'.tgt, last'.vals[1], Has)
            /\ \A w \in Probe : w < 0 => ~Has(h1', last'.tgt, w)
            /\ ~h2.panic =>
                  /\ ~h2'.panic
                  /\ OnlyRemoved(h2, h2', last'.tgt, last'.vals[1], HasV2)
      ]_vars

\* The values of a set as a sequence of its own, no longer on the heap.
Snapshot(mem, is) == Lit([i \in 1 .. is.length |-> mem[is.set][i - 1]])

\* C17: is.Difference(other) leaves the heap that is.Remove of a snapshot of
\* other's values leaves, and is.Union(other) the heap that is.Add of one
\* leaves, also when other is the receiver and the argument slice is the
\* array being changed: s.Difference(s) empties s, s.Union(s) changes nothing.
C17_DifferenceIsRemove ==
    /\ ~h1.panic
    /\ \A t, o \in Handles :
          LET is    == h1.obj[t]
              other == h1.obj[o]
          IN  /\ Difference(h1.mem, is, other) = Remove(h1.mem, is, Snapshot(h1.mem, other))
              /\ Union(h1.mem, is, other) = Add(h1.mem, is, Snapshot(h1.mem, other))
              /\ ~Difference(h1.mem, is, other).panic
              /\ ~Union(h1.mem, is, other).panic
    /\ \A t \in Handles :
          LET is == h1.obj[t]
              d  == Difference(h1.mem, is, is)
          IN  /\ Length(d.is) = 0
              /\ \A v \in Probe : ~Contains(d.mem, d.is, v)
              /\ Union(h1.mem, is, is) = [mem |-> h1.mem, is |-> is, panic |-> FALSE]

\* C17 witness: a holds two members and b another set of values; a.Difference(a)
\* writes to the array it iterates over and leaves a empty.
C17_Witness ==
    /\ ~h1.panic
    /\ Length(h1.obj["a"]) = 2
    /\ Members(h1, "b") = {1}
    /\ LET is == h1.obj["a"]
           d  == Difference(h1.mem, is, is)
       IN  /\ ~d.panic
           /\ Length(d.is) = 0
           /\ d.mem[is.set] # h1.mem[is.set]
           /\ Length(Difference(h1.mem, is, h1.obj["b"]).is) = 1

\* C18: the universe size of a set is the one given to New: Add, Remove, Union
\* and Difference leave it, whatever the universe of the other set, and the
\* set that Copy, Union(lhs, rhs) and Difference(lhs, rhs) return has the
\* universe size of the receiver or of lhs.
C18_UniverseFixed ==
    [][ LET t == last'.tgt
        IN  /\ ~h1'.panic
            /\ last'.op = "New" => UniverseSize(h1'.mem, h1'.obj[t]) = last'.size
            /\ last'.op \in {"Add", "Remove", "Union", "Difference"} =>
                  UniverseSize(h1'.mem, h1'.obj[t]) = UniverseSize(h1.mem, h1.obj[t])
            /\ last'.op \in {"Copy", "UnionOf", "DifferenceOf"} =>
                  UniverseSize(h1'.mem, h1'.obj[t]) = UniverseSize(h1.mem, h1.obj[last'.lhs])
            /\ \A o \in Handles \ {t} :
                  UniverseSize(h1'.mem, h1'.obj[o]) = UniverseSize(h1.mem, h1.obj[o])
      ]_vars

\* C18 witness: b = Difference(b, a) where b has universe size 2 and one
\* member and a has universe size 1: b still has universe size 2.
C18_Witness ==
    /\ last.op = "DifferenceOf"
    /\ last.tgt = "b" /\ last.lhs = "b" /\ last.rhs = "a"
    /\ ~h1.panic
    /\ UniverseSize(h1.mem, h1.obj["a"]) = 1
    /\ UniverseSize(h1.mem, h1.obj["b"]) = 2
    /\ Members(h1, "a") = {0}
    /\ Members(h1, "b") = {1}

\* C19: Add of one new in-universe value puts it at slot count and moves no
\* member; Remove of one member v from slot s puts the member of the last slot
\* into s, when that is not v itself, takes one off the count, and leaves every
\* other slot of the new dense prefix as it was.
C19_StorageOrder ==
    [][ (last'.op \in {"Add", "Remove"} /\ Len(last'.vals) = 1) =>
            LET t    == last'.tgt
                v    == last'.vals[1]
                is   == h1.obj[t]
                old  == Values(h1.mem, is)
                new  == Values(h1'.mem, h1'.obj[t])
                n    == Length(is)
            IN  /\ ~h1'.panic
                /\ (last'.op = "Add" /\ 0 <= v /\ v < uni[t] /\ ~Has(h1, t, v)) =>
                      /\ DOMAIN new = 0 .. n
                      /\ new[n] = v
                      /\ \A i \in 0 .. n - 1 : new[i] = old[i]
                /\ (last'.op = "Remove" /\ Has(h1, t, v)) =>
                      LET s == h1.mem[is.keys][v]
                      IN  /\ DOMAIN new = 0 .. n - 2
                          /\ old[s] = v
                          /\ \A i \in 0 .. n - 2 :
                                new[i] = IF i = s THEN old[n - 1] ELSE old[i]
      ]_vars

\* C19 witness: Remove(0) on a set stored as (0, 1, 2) has left (2, 1): the
\* last member is in the slot that 0 had, and 1 is where it was.
C19_Witness ==
    /\ last.op = "Remove"
    /\ last.vals = <<0>>
    /\ ~h1.panic
    /\ uni[last.tgt] = 3
    /\ Values(h1.mem, h1.obj[last.tgt]) = [i \in 0 .. 1 |-> IF i = 0 THEN 2 ELSE 1]
    /\ h1.mem[h1.obj[last.tgt].set][2] = 2
    /\ h1.mem[h1.obj[last.tgt].keys][0] = 0

====
